---- MODULE Spec2Model ----
(***************************************************************************)
(* Model of src/data_processing.py: the corpus reader                      *)
(* (read_sentiment_examples), the vocabulary builder (build_vocab) and the *)
(* bag-of-words vectorizer (bag_of_words).                                 *)
(*                                                                         *)
(* A file is a sequence of characters, a line a sequence of characters     *)
(* ending with "\n" (except possibly the last one), a tensor a sequence of *)
(* numbers whose Python index k is position k+1.                           *)
(***************************************************************************)
EXTENDS Integers, Sequences, FiniteSets, TLC

VARIABLES pc, infile, readRet, raised, examples, vocab, text, heap, results, written

vars == <<pc, infile, readRet, raised, examples, vocab, text, heap, results, written>>

(***************************************************************************)
(* Bounds of the model.                                                    *)
(***************************************************************************)
MaxFileLen == 7
MaxExamples == 2
MaxWords == 2
MaxTextLen == 3
MaxIndex == 2
MaxCalls == 2

Chars == {"a", " ", "\t", "\n", "1"}
Words == {"a", "b", "c"}
Labels == {1}

SeqsUpTo(S, n) == UNION {[1..k -> S] : k \in 0..n}
Range(s) == {s[i] : i \in 1..Len(s)}

(***************************************************************************)
(* Python built-ins used by the reader.                                    *)
(***************************************************************************)
Whitespace == {" ", "\t", "\n"}
Digits == {"1"}

\* f.readlines(): cut after every "\n"; the newline stays in its line, and a
\* last line without a newline is a line too.
RECURSIVE readlines_from(_, _, _)
readlines_from(f, i, cur) ==
    IF i > Len(f)
    THEN IF cur = <<>> THEN <<>> ELSE <<cur>>
    ELSE IF f[i] = "\n"
         THEN <<Append(cur, f[i])>> \o readlines_from(f, i + 1, <<>>)
         ELSE readlines_from(f, i + 1, Append(cur, f[i]))

\* Variant that drops the empty lines before they are parsed.
IsEmptyLine(line) == line = <<>> \/ line = <<"\n">>
readlines_nonempty(f) == SelectSeq(readlines_from(f, 1, <<>>), LAMBDA l : ~IsEmptyLine(l))

readlines(f) == readlines_from(f, 1, <<>>)

\* line.split(sep): k separators give k+1 fields, empty fields kept.
RECURSIVE split_from(_, _, _, _)
split_from(s, sep, i, cur) ==
    IF i > Len(s)
    THEN <<cur>>
    ELSE IF s[i] = sep
         THEN <<cur>> \o split_from(s, sep, i + 1, <<>>)
         ELSE split_from(s, sep, i + 1, Append(cur, s[i]))

split(s, sep) == split_from(s, sep, 1, <<>>)

\* str.strip() as int() applies it: leading and trailing whitespace removed.
RECURSIVE lstrip(_)
lstrip(s) ==
    IF s # <<>> /\ Head(s) \in Whitespace THEN lstrip(Tail(s)) ELSE s

RECURSIVE rstrip(_)
rstrip(s) ==
    IF s # <<>> /\ s[Len(s)] \in Whitespace
    THEN rstrip(SubSeq(s, 1, Len(s) - 1))
    ELSE s

strip(s) == lstrip(rstrip(s))

DigitValue(c) == IF c = "1" THEN 1 ELSE 0

RECURSIVE decimal(_)
decimal(s) ==
    IF s = <<>> THEN 0
    ELSE 10 * decimal(SubSeq(s, 1, Len(s) - 1)) + DigitValue(s[Len(s)])

\* int(s): surrounding whitespace is trimmed, what is left must be a
\* non-empty run of digits, anything else is a ValueError.
int(s) ==
    LET t == strip(s)
    IN  IF t # <<>> /\ \A i \in 1..Len(t) : t[i] \in Digits
        THEN [raised |-> "none", value |-> decimal(t)]
        ELSE [raised |-> "ValueError", value |-> 0]

\* tokenize (src.utils): whitespace-separated words, empty words dropped.
RECURSIVE tokenize_from(_, _, _)
tokenize_from(s, i, cur) ==
    IF i > Len(s)
    THEN IF cur = <<>> THEN <<>> ELSE <<cur>>
    ELSE IF s[i] \in Whitespace
         THEN (IF cur = <<>> THEN <<>> ELSE <<cur>>) \o tokenize_from(s, i + 1, <<>>)
         ELSE tokenize_from(s, i + 1, Append(cur, s[i]))

tokenize(s) == tokenize_from(s, 1, <<>>)

SentimentExample(words, label) == [words |-> words, label |-> label]

(***************************************************************************)
(* read_sentiment_examples                                                 *)
(***************************************************************************)
\* One element of the list comprehension: tokenize(line.split("\t")[0]) is
\* evaluated first, then line.split("\t")[1] (IndexError when there is no
\* second field), then int() of it (ValueError).
parse_line(line) ==
    LET fields == split(line, "\t")
    IN  IF Len(fields) < 2
        THEN [raised |-> "IndexError", example |-> SentimentExample(<<>>, 0)]
        ELSE LET n == int(fields[2])
             IN  IF n.raised # "none"
                 THEN [raised |-> n.raised, example |-> SentimentExample(<<>>, 0)]
                 ELSE [raised |-> "none",
                       example |-> SentimentExample(tokenize(fields[1]), n.value)]

\* Variant that skips a line it cannot parse and keeps going.
RECURSIVE parse_lines_skip(_, _, _)
parse_lines_skip(lines, i, acc) ==
    IF i > Len(lines)
    THEN [raised |-> "none", examples |-> acc]
    ELSE LET r == parse_line(lines[i])
         IN  IF r.raised # "none"
             THEN parse_lines_skip(lines, i + 1, acc)
             ELSE parse_lines_skip(lines, i + 1, Append(acc, r.example))

\* Variant that collects the examples in reverse file order.
RECURSIVE parse_lines_rev(_, _, _)
parse_lines_rev(lines, i, acc) ==
    IF i > Len(lines)
    THEN [raised |-> "none", examples |-> acc]
    ELSE LET r == parse_line(lines[i])
         IN  IF r.raised # "none"
             THEN [raised |-> r.raised, examples |-> <<>>]
             ELSE parse_lines_rev(lines, i + 1, <<r.example>> \o acc)

\* The comprehension over lines: the first line that raises ends it.
RECURSIVE parse_lines(_, _, _)
parse_lines(lines, i, acc) ==
    IF i > Len(lines)
    THEN [raised |-> "none", examples |-> acc]
    ELSE LET r == parse_line(lines[i])
         IN  IF r.raised # "none"
             THEN [raised |-> r.raised, examples |-> <<>>]
             ELSE parse_lines(lines, i + 1, Append(acc, r.example))

read_sentiment_examples(f) == parse_lines(readlines(f), 1, <<>>)

(***************************************************************************)
(* The reader as a state machine: a file is given, one call reads it.      *)
(* readRet is <<>> while nothing was returned and <<v>> once v was.        *)
(***************************************************************************)
Files == SeqsUpTo(Chars, MaxFileLen)

InitRead ==
    /\ pc = "file"
    /\ infile \in Files
    /\ readRet = <<>>
    /\ raised = "none"
    /\ examples = <<>>
    /\ vocab = <<>>
    /\ text = <<>>
    /\ heap = <<>>
    /\ results = <<>>
    /\ written = FALSE

Read ==
    /\ pc = "file"
    /\ LET r == read_sentiment_examples(infile)
       IN  /\ raised' = r.raised
           /\ readRet' = IF r.raised = "none" THEN <<r.examples>> ELSE <<>>
    /\ pc' = "read"
    /\ UNCHANGED <<infile, examples, vocab, text, heap, results, written>>

NextRead == Read

SpecRead == InitRead /\ [][NextRead]_vars

(***************************************************************************)
(* build_vocab                                                             *)
(***************************************************************************)
\* [word for example in examples for word in example.words]
RECURSIVE all_words(_)
all_words(exs) ==
    IF exs = <<>> THEN <<>> ELSE Head(exs).words \o all_words(Tail(exs))

\* list(set(ws)): the distinct words in any order the set may be enumerated.
list_of_set(ws) ==
    LET S == Range(ws)
    IN  {l \in [1..Cardinality(S) -> S] : \A i, j \in 1..Cardinality(S) : l[i] = l[j] => i = j}

\* Variant that numbers the words from 1.
enumerate_from_one(distinct_words) ==
    [w \in Range(distinct_words) |->
        CHOOSE i \in 1..Len(distinct_words) : distinct_words[i] = w]

\* {word: i for i, word in enumerate(distinct_words)}
enumerate_vocab(distinct_words) ==
    [w \in Range(distinct_words) |->
        (CHOOSE i \in 1..Len(distinct_words) :
            /\ distinct_words[i] = w
            /\ \A j \in (i + 1)..Len(distinct_words) : distinct_words[j] # w) - 1]

(***************************************************************************)
(* bag_of_words                                                            *)
(***************************************************************************)
\* Variant that reserves one extra position.
torch_zeros_plus_one(n) == [i \in 1..(n + 1) |-> 0]

\* torch.zeros(n)
torch_zeros(n) == [i \in 1..n |-> 0]

\* bow[k] = v on a 1-D tensor of n entries: 0..n-1 from the front, -n..-1
\* from the back, IndexError for any other k.
setitem(bow, k, v) ==
    LET n == Len(bow)
    IN  IF 0 <= k /\ k < n
        THEN [raised |-> "none", bow |-> [bow EXCEPT ![k + 1] = v]]
        ELSE IF -n <= k /\ k < 0
             THEN [raised |-> "none", bow |-> [bow EXCEPT ![n + k + 1] = v]]
             ELSE [raised |-> "IndexError", bow |-> bow]

\* Variant without the membership test.
in_vocab_always(word, v) == TRUE

\* word in vocab
in_vocab(word, v) == word \in DOMAIN v

\* bow[vocab[word]] = value: the dict lookup raises KeyError on a missing key.
store(bow, v, word, value) ==
    IF word \notin DOMAIN v
    THEN [raised |-> "KeyError", bow |-> bow]
    ELSE setitem(bow, v[word], value)

\* Variant that counts every distinct word once.
RECURSIVE Counter_of_set(_, _, _)
Counter_of_set(t, i, items) ==
    IF i > Len(t)
    THEN items
    ELSE IF \E k \in 1..Len(items) : items[k].word = t[i]
         THEN Counter_of_set(t, i + 1, items)
         ELSE Counter_of_set(t, i + 1, Append(items, [word |-> t[i], count |-> 1]))

\* Counter(text).items(): the distinct words in order of first occurrence,
\* each with its number of occurrences.
RECURSIVE Counter(_, _, _)
Counter(t, i, items) ==
    IF i > Len(t)
    THEN items
    ELSE IF \E k \in 1..Len(items) : items[k].word = t[i]
         THEN Counter(t, i + 1,
                      [k \in 1..Len(items) |->
                          IF items[k].word = t[i]
                          THEN [word |-> t[i], count |-> items[k].count + 1]
                          ELSE items[k]])
         ELSE Counter(t, i + 1, Append(items, [word |-> t[i], count |-> 1]))

\* Variant that writes one less than the number of occurrences.
store_count_less_one(bow, v, item) == store(bow, v, item.word, item.count - 1)

\* bow[vocab[word]] = count
store_count(bow, v, item) == store(bow, v, item.word, item.count)

\* Variant that adds up instead of setting the flag.
store_flag_as_sum(bow, v, word) ==
    IF word \in DOMAIN v /\ 0 <= v[word] /\ v[word] < Len(bow)
    THEN setitem(bow, v[word], bow[v[word] + 1] + 1)
    ELSE store(bow, v, word, 1)

\* bow[vocab[word]] = 1
store_flag(bow, v, word) == store(bow, v, word, 1)

\* for word in text: if word in vocab: bow[vocab[word]] = 1
RECURSIVE flag_loop(_, _, _, _)
flag_loop(t, v, bow, i) ==
    IF i > Len(t)
    THEN [raised |-> "none", bow |-> bow]
    ELSE IF in_vocab(t[i], v)
         THEN LET r == store_flag(bow, v, t[i])
              IN  IF r.raised # "none" THEN r ELSE flag_loop(t, v, r.bow, i + 1)
         ELSE flag_loop(t, v, bow, i + 1)

\* for word, count in word_counts.items(): if word in vocab: bow[vocab[word]] = count
RECURSIVE count_loop(_, _, _, _)
count_loop(items, v, bow, i) ==
    IF i > Len(items)
    THEN [raised |-> "none", bow |-> bow]
    ELSE IF in_vocab(items[i].word, v)
         THEN LET r == store_count(bow, v, items[i])
              IN  IF r.raised # "none" THEN r ELSE count_loop(items, v, r.bow, i + 1)
         ELSE count_loop(items, v, bow, i + 1)

bag_of_words(t, v, binary) ==
    LET bow == torch_zeros(Cardinality(DOMAIN v))
    IN  IF binary
        THEN flag_loop(t, v, bow, 1)
        ELSE count_loop(Counter(t, 1, <<>>), v, bow, 1)

(***************************************************************************)
(* The builder and the vectorizer as a state machine. A run is either a    *)
(* call of build_vocab on an example list, or calls of bag_of_words on a   *)
(* mapping and a token list handed over by a caller. heap holds the        *)
(* tensors allocated so far, results the value each call returned (the     *)
(* address of its tensor and the tensor's content at the return); the      *)
(* caller may then write into a tensor it was handed.                      *)
(***************************************************************************)
Examples == [words : SeqsUpTo(Words, MaxWords), label : Labels]
ExampleLists == SeqsUpTo(Examples, MaxExamples)
Texts == SeqsUpTo(Words, MaxTextLen)
Mappings == UNION {[D -> (-1)..MaxIndex] : D \in SUBSET Words}

InitBuild ==
    /\ pc = "start"
    /\ examples \in ExampleLists
    /\ vocab = <<>>
    /\ text = <<>>

InitGiven ==
    /\ pc = "given"
    /\ examples = <<>>
    /\ vocab \in Mappings
    /\ text \in Texts

Init ==
    /\ InitBuild \/ InitGiven
    /\ infile = <<>>
    /\ readRet = <<>>
    /\ raised = "none"
    /\ heap = <<>>
    /\ results = <<>>
    /\ written = FALSE

BuildVocab ==
    /\ pc = "start"
    /\ \E distinct_words \in list_of_set(all_words(examples)) :
          vocab' = enumerate_vocab(distinct_words)
    /\ pc' = "built"
    /\ UNCHANGED <<infile, readRet, raised, examples, text, heap, results, written>>

\* Variant that hands out the tensor of the previous call again.
reuse_tensor(h) == IF h = <<>> THEN 1 ELSE Len(h)

\* The tensor allocated by torch.zeros is a new object.
new_tensor(h) == Len(h) + 1

CallBow(binary) ==
    /\ pc = "given"
    /\ Len(results) < MaxCalls
    /\ ~written
    /\ LET r == bag_of_words(text, vocab, binary)
           a == new_tensor(heap)
       IN  IF r.raised = "none"
           THEN /\ heap' = IF a > Len(heap) THEN Append(heap, r.bow)
                           ELSE [heap EXCEPT ![a] = r.bow]
                /\ results' = Append(results,
                       [binary |-> binary, raised |-> "none", addr |-> a, bow |-> r.bow])
           ELSE /\ heap' = heap
                /\ results' = Append(results,
                       [binary |-> binary, raised |-> r.raised, addr |-> 0, bow |-> <<>>])
    /\ UNCHANGED <<pc, infile, readRet, raised, examples, vocab, text, written>>

\* The caller writes a new value into the first entry of the tensor call i
\* returned.
Write(i) ==
    /\ ~written
    /\ results[i].raised = "none"
    /\ heap[results[i].addr] # <<>>
    /\ heap' = [heap EXCEPT ![results[i].addr][1] = @ + 1]
    /\ written' = TRUE
    /\ UNCHANGED <<pc, infile, readRet, raised, examples, vocab, text, results>>

Next ==
    \/ BuildVocab
    \/ \E binary \in BOOLEAN : CallBow(binary)
    \/ \E i \in 1..Len(results) : Write(i)

Spec == Init /\ [][Next]_vars

(***************************************************************************)
(* Vocabulary of the builder's and the vectorizer's claims.                *)
(***************************************************************************)
Size(v) == Cardinality(DOMAIN v)
Indices(v) == {v[w] : w \in DOMAIN v}
OneToOne(v) == \A w1, w2 \in DOMAIN v : v[w1] = v[w2] => w1 = w2
DenseBijection(v) == Indices(v) = 0..(Size(v) - 1) /\ OneToOne(v)
IndicesInRange(v) == Indices(v) \subseteq 0..(Size(v) - 1)
Occurrences(t, w) == Cardinality({i \in 1..Len(t) : t[i] = w})
WordAt(v, i) == CHOOSE w \in DOMAIN v : v[w] = i
Min(a, b) == IF a <= b THEN a ELSE b
Calls == 1..Len(results)

\* C1: with a dense one-to-one vocabulary, the count vector has one entry
\* per word, and entry i is the exact number of occurrences in the token
\* list of the word of index i; tokens outside the vocabulary add nothing.
C1_CountVector ==
    \A k \in Calls :
        (DenseBijection(vocab) /\ ~results[k].binary)
        => /\ results[k].raised = "none"
           /\ Len(results[k].bow) = Size(vocab)
           /\ \A i \in 0..(Size(vocab) - 1) :
                results[k].bow[i + 1] = Occurrences(text, WordAt(vocab, i))

C1_Witness ==
    \E k \in Calls :
        /\ DenseBijection(vocab)
        /\ Size(vocab) = 2
        /\ ~results[k].binary
        /\ \E i \in 1..Len(text) : text[i] \notin DOMAIN vocab
        /\ \E i \in 1..2 : results[k].bow[i] = 2

\* C2: with a dense one-to-one vocabulary, the binary vector has one entry
\* per word, every entry is 0 or 1, and entry i is 1 exactly when the word
\* of index i occurs in the token list, however often.
C2_BinaryVector ==
    \A k \in Calls :
        (DenseBijection(vocab) /\ results[k].binary)
        => /\ results[k].raised = "none"
           /\ Len(results[k].bow) = Size(vocab)
           /\ \A i \in 0..(Size(vocab) - 1) :
                /\ results[k].bow[i + 1] \in {0, 1}
                /\ results[k].bow[i + 1] = 1 <=> WordAt(vocab, i) \in Range(text)

C2_Witness ==
    \E k \in Calls :
        /\ DenseBijection(vocab)
        /\ Size(vocab) = 3
        /\ results[k].binary
        /\ \E w \in DOMAIN vocab : Occurrences(text, w) = 2 /\ results[k].bow[vocab[w] + 1] = 1
        /\ \E i \in 1..3 : results[k].bow[i] = 0

\* C3: whatever the order in which the distinct words are enumerated, the
\* keys of the built vocabulary are exactly the distinct words of the
\* examples, its indices are exactly 0..k-1, and no two words share one.
C3_VocabBijection ==
    pc = "built"
    => /\ DOMAIN vocab = UNION {Range(examples[i].words) : i \in 1..Len(examples)}
       /\ Indices(vocab) = 0..(Size(vocab) - 1)
       /\ OneToOne(vocab)

C3_Witness ==
    /\ pc = "built"
    /\ Len(examples) = 2
    /\ examples[1].words = <<"a", "b">>
    /\ examples[2].words = <<"b", "c">>
    /\ vocab["c"] = 0
    /\ vocab["a"] = 1
    /\ vocab["b"] = 2

\* C5 as stated: for any mapping at all, any token list and either mode,
\* bag_of_words returns a vector and raises nothing.
C5_Original == \A k \in Calls : results[k].raised = "none"

\* The tokens of the list that are keys of the mapping.
Known(t, v) == SelectSeq(t, LAMBDA w : w \in DOMAIN v)

\* C5 amended: bag_of_words is total over the mappings whose indices all
\* lie in 0..|vocab|-1, dense or not, shared or not: it returns a vector
\* of length |vocab| and raises nothing, and a token that is not a key is
\* a silent no-op. When a token of the list maps to an index of |vocab|
\* or more the call raises an index error instead.
C5_TotalInRange ==
    \A k \in Calls :
        /\ IndicesInRange(vocab)
           => /\ results[k].raised = "none"
              /\ Len(results[k].bow) = Size(vocab)
              /\ results[k].bow = bag_of_words(Known(text, vocab), vocab, results[k].binary).bow
        /\ (\E i \in 1..Len(text) :
               /\ text[i] \in DOMAIN vocab
               /\ vocab[text[i]] >= Size(vocab))
           => results[k].raised = "IndexError"

C5_Witness ==
    \E k \in Calls :
        /\ IndicesInRange(vocab)
        /\ ~DenseBijection(vocab)
        /\ \E i \in 1..Len(text) : text[i] \notin DOMAIN vocab
        /\ \E i \in 1..Len(text) : text[i] \in DOMAIN vocab
        /\ results[k].raised = "none"
        /\ \E i \in 1..Len(results[k].bow) : results[k].bow[i] # 0

\* C7: a call of bag_of_words leaves the vocabulary and the token list as
\* they were, a call of build_vocab leaves the examples as they were, and
\* writing into the vector one call returned leaves the vector any other
\* call returned untouched.
C7_Frame ==
    [][/\ results' # results => (vocab' = vocab /\ text' = text /\ examples' = examples)
       /\ pc' # pc => (examples' = examples /\ text' = text)
       /\ \A i, j \in Calls :
            (/\ i # j
             /\ results' = results
             /\ results[i].raised = "none" /\ results[j].raised = "none"
             /\ heap'[results[i].addr] # heap[results[i].addr])
            => heap'[results[j].addr] = heap[results[j].addr]]_vars

C7_Witness ==
    /\ written
    /\ Len(results) = 2
    /\ results[1].binary = results[2].binary
    /\ results[1].raised = "none" /\ results[2].raised = "none"
    /\ results[1].bow = results[2].bow
    /\ heap[results[1].addr][1] = results[1].bow[1] + 1
    /\ heap[results[2].addr] = results[2].bow
    /\ \E w \in DOMAIN vocab : w \in Range(text)

\* C8: build_vocab of an empty example list is the empty vocabulary, and
\* with an empty vocabulary bag_of_words returns the vector of length 0 for
\* every token list, in both modes, without an error.
C8_EmptyInputs ==
    /\ (pc = "built" /\ examples = <<>>) => DOMAIN vocab = {}
    /\ \A k \in Calls :
         DOMAIN vocab = {} => (results[k].raised = "none" /\ results[k].bow = <<>>)

C8_Witness ==
    /\ DOMAIN vocab = {}
    /\ text # <<>>
    /\ Len(results) = 2
    /\ results[1].binary /\ ~results[2].binary
    /\ results[1].bow = <<>> /\ results[2].bow = <<>>

\* C10: for a mapping whose indices lie in 0..|V|-1, the binary vector is
\* the count vector clamped to 1: same length, and entry by entry
\* binary[i] = min(1, count[i]).
C10_BinaryIsClampedCount ==
    \A j, k \in Calls :
        (IndicesInRange(vocab) /\ results[j].binary /\ ~results[k].binary)
        => /\ results[j].raised = "none" /\ results[k].raised = "none"
           /\ Len(results[j].bow) = Len(results[k].bow)
           /\ \A i \in 1..Len(results[j].bow) :
                results[j].bow[i] = Min(1, results[k].bow[i])

C10_Witness ==
    \E j, k \in Calls :
        /\ IndicesInRange(vocab)
        /\ ~OneToOne(vocab)
        /\ results[j].binary /\ ~results[k].binary
        /\ \E i \in 1..Len(results[k].bow) : results[k].bow[i] >= 2
        /\ \E i \in 1..Len(results[k].bow) : results[k].bow[i] = 0

(***************************************************************************)
(* Vocabulary of the reader's claims, stated on the raw characters.        *)
(***************************************************************************)
Count(s, c) == Cardinality({i \in 1..Len(s) : s[i] = c})

\* Number of lines of a file: one per newline, plus an unterminated last one.
LineCount(f) ==
    Count(f, "\n") + (IF f # <<>> /\ f[Len(f)] # "\n" THEN 1 ELSE 0)

FileLines == readlines_from(infile, 1, <<>>)

TabAt(line) == CHOOSE i \in 1..Len(line) : line[i] = "\t" /\ \A j \in 1..(i - 1) : line[j] # "\t"

\* The text before the first tab.
TextOf(line) == SubSeq(line, 1, TabAt(line) - 1)

\* The field after the first tab: up to the next tab, or to the end of the line.
LabelField(line) ==
    LET t == TabAt(line)
        stops == {j \in (t + 1)..Len(line) : line[j] = "\t"}
        e == IF stops = {} THEN Len(line)
             ELSE (CHOOSE j \in stops : \A k \in stops : j <= k) - 1
    IN  SubSeq(line, t + 1, e)

WithoutNewline(s) ==
    IF s # <<>> /\ s[Len(s)] = "\n" THEN SubSeq(s, 1, Len(s) - 1) ELSE s

AllDigits(s) == s # <<>> /\ \A i \in 1..Len(s) : s[i] \in Digits

\* A well-formed line: a text field, one tab, an integer label.
WellFormedLine(line) ==
    /\ Count(line, "\t") = 1
    /\ AllDigits(WithoutNewline(LabelField(line)))

\* What integer parsing accepts: digits, possibly surrounded by whitespace.
IsIntegerText(s) ==
    \E a \in 1..Len(s) : \E b \in a..Len(s) :
        /\ \A i \in a..b : s[i] \in Digits
        /\ \A i \in (1..Len(s)) \ (a..b) : s[i] \in Whitespace

LacksTab(line) == Count(line, "\t") = 0
BadLabel(line) == ~LacksTab(line) /\ ~IsIntegerText(LabelField(line))
BadLine(line) == LacksTab(line) \/ BadLabel(line)

\* C4: a well-formed file of N lines yields exactly N examples, the i-th
\* built from the i-th line: its tokens are the tokenizer's output on the
\* text before the tab, its label the integer value of the field after it.
C4_ReadWellFormed ==
    (pc = "read" /\ \A i \in 1..Len(FileLines) : WellFormedLine(FileLines[i]))
    => /\ raised = "none"
       /\ Len(readRet) = 1
       /\ Len(readRet[1]) = LineCount(infile)
       /\ \A i \in 1..LineCount(infile) :
            /\ readRet[1][i].words = tokenize(TextOf(FileLines[i]))
            /\ readRet[1][i].label = decimal(WithoutNewline(LabelField(FileLines[i])))

C4_Witness ==
    /\ pc = "read"
    /\ Len(FileLines) = 2
    /\ \A i \in 1..2 : WellFormedLine(FileLines[i])
    /\ Len(readRet) = 1
    /\ Len(readRet[1]) = 2
    /\ readRet[1][1].label = 1
    /\ readRet[1][2].label = 11

\* C6: one line without a tab (index error) or with a label that is not an
\* integer (format error) ends the call in that error, nothing is returned,
\* wherever the line sits; no line is skipped or given a default label.
C6_FailFast ==
    (pc = "read" /\ \E i \in 1..Len(FileLines) : BadLine(FileLines[i]))
    => LET first == CHOOSE i \in 1..Len(FileLines) :
                        /\ BadLine(FileLines[i])
                        /\ \A j \in 1..(i - 1) : ~BadLine(FileLines[j])
       IN  /\ readRet = <<>>
           /\ LacksTab(FileLines[first]) => raised = "IndexError"
           /\ BadLabel(FileLines[first]) => raised = "ValueError"

C6_Witness ==
    /\ pc = "read"
    /\ Len(FileLines) = 3
    /\ WellFormedLine(FileLines[1])
    /\ BadLine(FileLines[2])
    /\ WellFormedLine(FileLines[3])
    /\ readRet = <<>>
    /\ raised \in {"IndexError", "ValueError"}

HasEmptyLine == \E i \in 1..Len(FileLines) : IsEmptyLine(FileLines[i])
NonEmptyLines == SelectSeq(FileLines, LAMBDA l : ~IsEmptyLine(l))
NonEmptyLinesWellFormed ==
    \A i \in 1..Len(NonEmptyLines) : WellFormedLine(NonEmptyLines[i])

\* C9 as stated: only the non-empty lines are split and parsed, so a file
\* with empty lines whose other lines are well-formed is read without error,
\* one example per non-empty line, in file order.
C9_Original ==
    (pc = "read" /\ HasEmptyLine /\ NonEmptyLinesWellFormed)
    => /\ raised = "none"
       /\ Len(readRet) = 1
       /\ Len(readRet[1]) = Len(NonEmptyLines)
       /\ \A i \in 1..Len(NonEmptyLines) :
            readRet[1][i].label = decimal(WithoutNewline(LabelField(NonEmptyLines[i])))

\* C9 amended: every line is split and parsed, the empty ones too. With
\* all non-empty lines well-formed, a file without empty lines yields one
\* example per line in file order, and a file with an empty line ends in
\* an index error and returns nothing.
C9_EveryLineParsed ==
    (pc = "read" /\ NonEmptyLinesWellFormed)
    => IF HasEmptyLine
       THEN raised = "IndexError" /\ readRet = <<>>
       ELSE /\ raised = "none"
            /\ readRet # <<>>
            /\ Len(readRet[1]) = Len(FileLines)
            /\ \A i \in 1..Len(FileLines) :
                 readRet[1][i] = SentimentExample(tokenize(TextOf(FileLines[i])),
                                     decimal(WithoutNewline(LabelField(FileLines[i]))))

C9_Witness ==
    /\ pc = "read"
    /\ HasEmptyLine
    /\ Len(NonEmptyLines) = 2
    /\ NonEmptyLinesWellFormed
    /\ IsEmptyLine(FileLines[Len(FileLines)])
    /\ raised = "IndexError"
    /\ readRet = <<>>

====
